---- MODULE Spec2Model ----
(***************************************************************************)
(* A model of tabled: the parsers (detectFormat, parseMarkdown, parseCSV,  *)
(* parseTSV, parseSQL, parse) and the formatter (format and its helpers).  *)
(*                                                                         *)
(* A JavaScript string is a sequence of one-character strings, so that     *)
(* length, trim, split, join, padEnd and substring are computed as the     *)
(* code computes them.  A grid is a sequence of rows, a row a sequence of  *)
(* cells.  Column indices are the code's 0-based numbers; the cell of      *)
(* column idx of a row is row[idx + 1].                                    *)
(***************************************************************************)
EXTENDS Integers, Sequences, FiniteSets, TLC

VARIABLES
    pc,        \* position of the call being modelled
    data,      \* the grid handed to format
    maxWidth,  \* format's maxWidth argument
    result,    \* format's locals and its returned string
    text,      \* the text handed to the parser
    parsed,    \* detectFormat's tag and the parser's grid
    loop       \* splitColumnsIntoGroups: arguments and loop variables

vars == <<pc, data, maxWidth, result, text, parsed, loop>>

(***************************************************************************)
(* Program constants.                                                      *)
(***************************************************************************)
MAX_TABLE_WIDTH == 100
MIN_COLUMN_WIDTH == 3
MAX_COLUMNS_BEFORE_SPLIT == 10
\* the smallest maxWidth the HTTP adapter lets through
MIN_HTTP_WIDTH == 20

(***************************************************************************)
(* String primitives of JavaScript used by the code.                       *)
(***************************************************************************)
NL == "\n"
TAB == "\t"
\* the characters String.prototype.trim and the regex class \s remove,
\* among those of the model's alphabet
WS == {" ", TAB, NL}

Rep(ch, n) == [i \in 1..n |-> ch]

MaxOf(S) == CHOOSE x \in S : \A y \in S : y <= x

MinOf(S) == CHOOSE x \in S : \A y \in S : x <= y

RECURSIVE SumSeq(_)
SumSeq(s) == IF Len(s) = 0 THEN 0 ELSE Head(s) + SumSeq(Tail(s))

RECURSIVE trimStart(_)
trimStart(s) ==
    IF Len(s) > 0 /\ Head(s) \in WS THEN trimStart(Tail(s)) ELSE s

RECURSIVE trimEnd(_)
trimEnd(s) ==
    IF Len(s) > 0 /\ s[Len(s)] \in WS
    THEN trimEnd(SubSeq(s, 1, Len(s) - 1))
    ELSE s

trim(s) == trimEnd(trimStart(s))

\* s.indexOf(ch, i), 1-based, 0 when there is none
RECURSIVE indexOf(_, _, _)
indexOf(s, ch, i) ==
    IF i > Len(s) THEN 0
    ELSE IF s[i] = ch THEN i
    ELSE indexOf(s, ch, i + 1)

\* s.split(sep) for a one-character separator: k separators give k+1 pieces
RECURSIVE split(_, _)
split(s, sep) ==
    LET i == indexOf(s, sep, 1)
    IN  IF i = 0 THEN <<s>>
        ELSE <<SubSeq(s, 1, i - 1)>> \o split(SubSeq(s, i + 1, Len(s)), sep)

\* pieces.join(sep)
RECURSIVE join(_, _)
join(pieces, sep) ==
    IF Len(pieces) = 0 THEN <<>>
    ELSE IF Len(pieces) = 1 THEN pieces[1]
    ELSE pieces[1] \o sep \o join(Tail(pieces), sep)

padEnd(s, width) ==
    IF Len(s) >= width THEN s ELSE s \o Rep(" ", width - Len(s))

substring(s, n) == SubSeq(s, 1, IF n < Len(s) THEN n ELSE Len(s))

startsWith(s, ch) == Len(s) > 0 /\ s[1] = ch
endsWith(s, ch) == Len(s) > 0 /\ s[Len(s)] = ch
includes(s, ch) == \E i \in 1..Len(s) : s[i] = ch

\* row[idx] || '' : a missing cell reads as the empty string
Cell(row, idx) == IF idx + 1 <= Len(row) THEN row[idx + 1] ELSE <<>>

\* Array.from({length: n}, (_, i) => i)
Range0(n) == [i \in 1..n |-> i - 1]

(***************************************************************************)
(* The formatter.                                                          *)
(***************************************************************************)
NumCols(d) == MaxOf({Len(d[r]) : r \in 1..Len(d)})

calculateColumnWidths(d) ==
    IF Len(d) = 0 THEN <<>>
    ELSE [c \in 1..NumCols(d) |->
            MaxOf({0} \cup {Len(d[r][c]) : r \in {q \in 1..Len(d) : c <= Len(d[q])}})]

calculateTableWidth(colWidths) ==
    SumSeq(colWidths) + (Len(colWidths) * 3) + 1

\* Mutant: the cell is compared with '' without being trimmed.
ColumnHasValue_NoTrim(d, colIdx) ==
    \E r \in 1..Len(d) : Cell(d[r], colIdx) # <<>>

ColumnHasValue(d, colIdx) ==
    \E r \in 1..Len(d) : trim(Cell(d[r], colIdx)) # <<>>

identifyNonEmptyColumns(d) ==
    IF Len(d) = 0 THEN <<>>
    ELSE SelectSeq(Range0(NumCols(d)), LAMBDA colIdx : ColumnHasValue(d, colIdx))

\* Mutant: an empty value is not skipped, so two empty values are a repeat.
RECURSIVE UniqueScan_CountsEmpty(_, _, _)
UniqueScan_CountsEmpty(d, r, seen) ==
    IF r > Len(d) THEN TRUE
    ELSE LET value == trim(Cell(d[r], 0))
         IN  IF value \in seen THEN FALSE
             ELSE UniqueScan_CountsEmpty(d, r + 1, seen \cup {value})

\* the scan of hasUniqueFirstColumn from row r on, firstColValues = seen
RECURSIVE UniqueScan(_, _, _)
UniqueScan(d, r, seen) ==
    IF r > Len(d) THEN TRUE
    ELSE LET value == trim(Cell(d[r], 0))
         IN  IF value = <<>> THEN UniqueScan(d, r + 1, seen)
             ELSE IF value \in seen THEN FALSE
             ELSE UniqueScan(d, r + 1, seen \cup {value})

\* Mutant: the values are compared without being trimmed.
hasUniqueFirstColumn_NoTrim(d) ==
    /\ Len(d) > 0
    /\ \A r1, r2 \in 1..Len(d) :
          (r1 < r2 /\ trim(Cell(d[r1], 0)) # <<>>) => Cell(d[r1], 0) # Cell(d[r2], 0)

hasUniqueFirstColumn(d) ==
    IF Len(d) = 0 THEN FALSE ELSE UniqueScan(d, 1, {})

\* Mutant: a cell is written as it is, not padded to its column's width.
formatRow_NoPadding(row, colWidths) ==
    <<"|">> \o
    join([i \in 1..Len(row) |-> <<" ">> \o row[i] \o <<" ">>], <<"|">>) \o
    <<"|">>

formatRow(row, colWidths) ==
    <<"|">> \o
    join([i \in 1..Len(row) |-> <<" ">> \o padEnd(row[i], colWidths[i]) \o <<" ">>],
         <<"|">>) \o
    <<"|">>

formatSeparator(colWidths) ==
    <<"|">> \o
    join([i \in 1..Len(colWidths) |-> Rep("-", colWidths[i] + 2)], <<"|">>) \o
    <<"|">>

\* data.map(row => colIndices.map(idx => row[idx] || ''))
SelectColumns(d, colIndices) ==
    [r \in 1..Len(d) |-> [j \in 1..Len(colIndices) |-> Cell(d[r], colIndices[j])]]

formatSingleTable(d, colIndices) ==
    IF Len(d) = 0 THEN <<>>
    ELSE LET tableData == SelectColumns(d, colIndices)
             colWidths == calculateColumnWidths(tableData)
             lines == <<formatRow(tableData[1], colWidths), formatSeparator(colWidths)>>
                      \o [k \in 1..(Len(tableData) - 1) |->
                             formatRow(tableData[k + 1], colWidths)]
         IN  join(lines, <<NL>>)

\* calculateTableWidth of the widths of the columns of testGroup
GroupWidth(colWidths, testGroup) ==
    calculateTableWidth([j \in 1..Len(testGroup) |-> colWidths[testGroup[j] + 1]])

\* testGroup of splitColumnsIntoGroups for column i
TestGroup(currentGroup, i, repeatFirstCol) ==
    IF repeatFirstCol /\ Len(currentGroup) > 1
    THEN <<0>> \o Tail(currentGroup) \o <<i>>
    ELSE currentGroup \o <<i>>

\* Mutant: the new group starts without the column that did not fit.
SplitStep_NewGroupDropsColumn(st, colWidths, mw, repeatFirstCol) ==
    IF st.i = 0
    THEN [st EXCEPT !.i = 1, !.currentGroup = Append(st.currentGroup, 0)]
    ELSE IF GroupWidth(colWidths, TestGroup(st.currentGroup, st.i, repeatFirstCol)) <= mw
    THEN [st EXCEPT !.i = st.i + 1, !.currentGroup = Append(st.currentGroup, st.i)]
    ELSE [i |-> st.i + 1,
          groups |-> IF Len(st.currentGroup) > 0
                     THEN Append(st.groups, st.currentGroup)
                     ELSE st.groups,
          currentGroup |-> IF repeatFirstCol THEN <<0>> ELSE <<>>]

\* one iteration of the for loop of splitColumnsIntoGroups, on the loop
\* variables st = [i, groups, currentGroup]
SplitStep(st, colWidths, mw, repeatFirstCol) ==
    IF st.i = 0
    THEN [st EXCEPT !.i = 1, !.currentGroup = Append(st.currentGroup, 0)]
    ELSE IF GroupWidth(colWidths, TestGroup(st.currentGroup, st.i, repeatFirstCol)) <= mw
    THEN [st EXCEPT !.i = st.i + 1, !.currentGroup = Append(st.currentGroup, st.i)]
    ELSE [i |-> st.i + 1,
          groups |-> IF Len(st.currentGroup) > 0
                     THEN Append(st.groups, st.currentGroup)
                     ELSE st.groups,
          currentGroup |-> IF repeatFirstCol THEN <<0, st.i>> ELSE <<st.i>>]

\* "Add last group" and return
SplitFinish(st) ==
    IF Len(st.currentGroup) > 0 THEN Append(st.groups, st.currentGroup) ELSE st.groups

SplitStart == [i |-> 0, groups |-> <<>>, currentGroup |-> <<>>]

RECURSIVE SplitRun(_, _, _, _)
SplitRun(st, colWidths, mw, repeatFirstCol) ==
    IF st.i < Len(colWidths)
    THEN SplitRun(SplitStep(st, colWidths, mw, repeatFirstCol), colWidths, mw, repeatFirstCol)
    ELSE SplitFinish(st)

splitColumnsIntoGroups(colWidths, mw, repeatFirstCol) ==
    SplitRun(SplitStart, colWidths, mw, repeatFirstCol)

\* Mutant: the first columns are kept instead of the non-empty ones.
filteredData_FirstColumns(nd, nonEmptyColIndices) ==
    [r \in 1..Len(nd) |-> [j \in 1..Len(nonEmptyColIndices) |-> nd[r][j]]]

\* "Ensure all rows have the same length"
normalizedData(d) ==
    [r \in 1..Len(d) |-> [c \in 1..NumCols(d) |-> Cell(d[r], c - 1)]]

\* normalizedData.map(row => nonEmptyColIndices.map(idx => row[idx]))
filteredData(nd, nonEmptyColIndices) ==
    [r \in 1..Len(nd) |->
        [j \in 1..Len(nonEmptyColIndices) |-> nd[r][nonEmptyColIndices[j] + 1]]]

\* Mutant: the column count does not force a split.
shouldSplit_NoColumnLimit(colWidths) ==
    SumSeq(colWidths) < (MIN_COLUMN_WIDTH * 2) * Len(colWidths)

\* avgColWidth < MIN_COLUMN_WIDTH * 2, the mean taken exactly
shouldSplit(colWidths) ==
    \/ Len(colWidths) > MAX_COLUMNS_BEFORE_SPLIT
    \/ SumSeq(colWidths) < (MIN_COLUMN_WIDTH * 2) * Len(colWidths)

\* Math.max(Math.floor(w * scale), MIN_COLUMN_WIDTH), scale = available / total.
\* The quotient is exact here; the code's double arithmetic gives the same
\* floor for every column width below 22.
ScaledWidths(colWidths, availableWidth) ==
    LET totalContentWidth == SumSeq(colWidths)
    IN  [i \in 1..Len(colWidths) |->
            LET scaled == (colWidths[i] * availableWidth) \div totalContentWidth
            IN  IF scaled > MIN_COLUMN_WIDTH THEN scaled ELSE MIN_COLUMN_WIDTH]

\* positions of ws sorted by descending width, equal widths in index order
\* (Array.prototype.sort is stable)
RECURSIVE SortedDesc(_, _)
SortedDesc(ws, left) ==
    IF left = {} THEN <<>>
    ELSE LET top == MaxOf({ws[i] : i \in left})
             first == MinOf({i \in left : ws[i] = top})
         IN  <<first>> \o SortedDesc(ws, left \ {first})

\* Mutant: the trim takes from a column without keeping MIN_COLUMN_WIDTH.
RECURSIVE TrimLoop_IgnoresMinimum(_, _, _, _)
TrimLoop_IgnoresMinimum(ws, sorted, k, excess) ==
    IF k > Len(sorted) \/ excess <= 0 THEN ws
    ELSE LET width == ws[sorted[k]]
             canRemove == IF excess < width THEN excess ELSE width
         IN  TrimLoop_IgnoresMinimum([ws EXCEPT ![sorted[k]] = width - canRemove],
                                     sorted, k + 1, excess - canRemove)

\* the "Trim from largest columns first" loop, at item k of sorted
RECURSIVE TrimLoop(_, _, _, _)
TrimLoop(ws, sorted, k, excess) ==
    IF k > Len(sorted) \/ excess <= 0 THEN ws
    ELSE LET width == ws[sorted[k]]
             canRemove == IF excess < width - MIN_COLUMN_WIDTH
                          THEN excess ELSE width - MIN_COLUMN_WIDTH
         IN  TrimLoop([ws EXCEPT ![sorted[k]] = width - canRemove],
                      sorted, k + 1, excess - canRemove)

adjustedWidths(colWidths, availableWidth) ==
    LET scaledWidths == ScaledWidths(colWidths, availableWidth)
        adjustedTotal == SumSeq(scaledWidths)
    IN  IF adjustedTotal > availableWidth
        THEN TrimLoop(scaledWidths, SortedDesc(scaledWidths, DOMAIN scaledWidths),
                      1, adjustedTotal - availableWidth)
        ELSE scaledWidths

\* Mutant: the end of a long cell is kept instead of its start.
truncatedData_KeepsTail(fd, adjWidths) ==
    [r \in 1..Len(fd) |->
        [c \in 1..Len(fd[r]) |->
            IF Len(fd[r][c]) > adjWidths[c]
            THEN SubSeq(fd[r][c], Len(fd[r][c]) - adjWidths[c] + 1, Len(fd[r][c]))
            ELSE fd[r][c]]]

\* Mutant: a long cell is cut one character short of the adjusted width.
truncatedData_OneShort(fd, adjWidths) ==
    [r \in 1..Len(fd) |->
        [c \in 1..Len(fd[r]) |->
            IF Len(fd[r][c]) > adjWidths[c]
            THEN substring(fd[r][c], adjWidths[c] - 1)
            ELSE fd[r][c]]]

truncatedData(fd, adjWidths) ==
    [r \in 1..Len(fd) |->
        [c \in 1..Len(fd[r]) |->
            IF Len(fd[r][c]) > adjWidths[c]
            THEN substring(fd[r][c], adjWidths[c])
            ELSE fd[r][c]]]

NoLocals ==
    [path |-> "empty", nonEmptyColIndices |-> <<>>, filteredData |-> <<>>,
     colWidths |-> <<>>, hasKeyColumn |-> FALSE, adjustedWidths |-> <<>>,
     groups |-> <<>>, output |-> <<>>]

\* format(data, maxWidth) up to the choice of the returning branch (path):
\* the locals that branch has computed, the string not yet rendered
formatLocals(d, mw) ==
    IF Len(d) = 0 THEN NoLocals
    ELSE
    LET nonEmptyColIndices == identifyNonEmptyColumns(normalizedData(d))
    IN  IF Len(nonEmptyColIndices) = 0 THEN NoLocals
        ELSE
        LET fd == filteredData(normalizedData(d), nonEmptyColIndices)
            colWidths == calculateColumnWidths(fd)
            totalWidth == calculateTableWidth(colWidths)
            filteredNumCols == Len(fd[1])
            hasKeyColumn == hasUniqueFirstColumn(fd)
            availableWidth == mw - ((filteredNumCols * 3) + 1)
            locals == [NoLocals EXCEPT !.nonEmptyColIndices = nonEmptyColIndices,
                                       !.filteredData = fd,
                                       !.colWidths = colWidths]
        IN  IF totalWidth <= mw
            THEN [locals EXCEPT !.path = "single",
                                !.groups = <<Range0(filteredNumCols)>>]
            ELSE IF ~shouldSplit(colWidths)
                    /\ availableWidth > filteredNumCols * MIN_COLUMN_WIDTH
            THEN [locals EXCEPT !.path = "squeeze",
                                !.hasKeyColumn = hasKeyColumn,
                                !.adjustedWidths = adjustedWidths(colWidths, availableWidth),
                                !.groups = <<Range0(filteredNumCols)>>]
            ELSE [locals EXCEPT !.path = "split",
                                !.hasKeyColumn = hasKeyColumn,
                                !.groups = splitColumnsIntoGroups(colWidths, mw, hasKeyColumn)]

\* the string the chosen branch returns
formatOutput(L) ==
    CASE L.path = "empty" -> <<>>
      [] L.path = "single" -> formatSingleTable(L.filteredData, L.groups[1])
      [] L.path = "squeeze" ->
            formatSingleTable(truncatedData(L.filteredData, L.adjustedWidths), L.groups[1])
      [] L.path = "split" ->
            join([g \in 1..Len(L.groups) |-> formatSingleTable(L.filteredData, L.groups[g])],
                 <<NL, NL>>)

format(d, mw) ==
    LET L == formatLocals(d, mw) IN [L EXCEPT !.output = formatOutput(L)]

(***************************************************************************)
(* Grids handed to format.                                                 *)
(***************************************************************************)
\* bounds of the generated grids
MaxCols == 11
MaxRows == 3
WideLen == 18
\* bounds of the exhaustively enumerated small grids
MaxSmallRows == 2
MaxSmallCols == 2

BaseWidths == {1, 5, 9}
KeyKinds == {"key", "dup", "trimdup"}
MaxWidths == {8, MIN_HTTP_WIDTH, 45, MAX_TABLE_WIDTH}
Letters == <<"a", "b", "c">>

\* a word of len characters that starts with ch
Word(ch, len) == [i \in 1..len |-> IF i = 1 THEN ch ELSE "x"]

\* Cell of row r (1 = header) and column c (0-based) of a generated grid:
\* column 0 holds distinct values (key), one repeated value (dup) or values
\* equal up to surrounding whitespace (trimdup); the other columns hold
\* words of at most wb letters; column sp, if sk is not "none", is vacuous
\* (empty and blank cells) or wide; sp is the first, the second or the last
\* column.
GenCell(r, c, k0, wb, sp, sk) ==
    IF c = sp /\ sk = "vacuous" THEN (IF r % 2 = 1 THEN <<>> ELSE <<" ">>)
    ELSE IF c = sp /\ sk = "wide" THEN Word("w", WideLen)
    ELSE IF c = 0 THEN
        CASE k0 = "key" -> Rep("k", r) \o Rep("x", wb - 1)
          [] k0 = "dup" -> Word("d", wb)
          [] k0 = "trimdup" -> (IF r % 2 = 1 THEN <<>> ELSE <<" ">>) \o Word("d", wb)
    ELSE Word(Letters[(c % 3) + 1], IF r = 1 THEN wb ELSE 1 + ((r + c) % wb))

GenGrid(n, rows, k0, wb, sp, sk) ==
    [r \in 1..rows |-> [c \in 1..n |-> GenCell(r, c - 1, k0, wb, sp, sk)]]

GenGrids ==
    {GenGrid(n, rows, k0, wb, 0, "none") :
        n \in 1..MaxCols, rows \in 1..MaxRows, k0 \in KeyKinds, wb \in BaseWidths}
    \cup
    UNION {{GenGrid(n, rows, k0, wb, sp, sk) :
                sp \in {0, 1, n - 1} \cap 0..(n - 1), sk \in {"vacuous", "wide"}} :
        n \in 1..MaxCols, rows \in 1..MaxRows, k0 \in KeyKinds, wb \in BaseWidths}

SmallCells == {<<" ">>, <<"a", "b">>}
SmallRowSet == UNION {[1..n -> SmallCells] : n \in 0..MaxSmallCols}
SmallGrids == UNION {[1..m -> SmallRowSet] : m \in 0..MaxSmallRows}

Grids == GenGrids \cup SmallGrids

Idle == <<>>

(***************************************************************************)
(* SpecFormat: one call format(data, maxWidth); one action per branch that *)
(* returns.                                                                *)
(***************************************************************************)
InitFormat ==
    /\ pc = "format"
    /\ data \in Grids
    /\ maxWidth \in MaxWidths
    /\ result = NoLocals
    /\ text = Idle
    /\ parsed = Idle
    /\ loop = Idle

\* lines 215-217 and 233-235: return ''
FormatEmpty ==
    /\ pc = "format"
    /\ formatLocals(data, maxWidth).path = "empty"
    /\ result' = format(data, maxWidth)
    /\ pc' = "returned"
    /\ UNCHANGED <<data, maxWidth, text, parsed, loop>>

\* lines 248-251: everything fits, one table
FormatSingle ==
    /\ pc = "format"
    /\ formatLocals(data, maxWidth).path = "single"
    /\ result' = format(data, maxWidth)
    /\ pc' = "returned"
    /\ UNCHANGED <<data, maxWidth, text, parsed, loop>>

\* lines 261-306: squeeze into one table
FormatSqueeze ==
    /\ pc = "format"
    /\ formatLocals(data, maxWidth).path = "squeeze"
    /\ result' = format(data, maxWidth)
    /\ pc' = "returned"
    /\ UNCHANGED <<data, maxWidth, text, parsed, loop>>

\* lines 309-316: split into multiple tables
FormatSplit ==
    /\ pc = "format"
    /\ formatLocals(data, maxWidth).path = "split"
    /\ result' = format(data, maxWidth)
    /\ pc' = "returned"
    /\ UNCHANGED <<data, maxWidth, text, parsed, loop>>

NextFormat == FormatEmpty \/ FormatSingle \/ FormatSqueeze \/ FormatSplit

SpecFormat == InitFormat /\ [][NextFormat]_vars

(***************************************************************************)
(* What a caller of format sees, read back from the returned string, and   *)
(* what the grid handed to format says, stated without the code's helpers. *)
(***************************************************************************)
OutputLines == split(result.output, NL)

\* the tables of the output: runs of lines separated by one blank line
OutputTables == IF result.output = <<>> THEN <<>> ELSE split(OutputLines, <<>>)

\* the cells of a rendered line, without the space on either side of each
\* (no cell of Grids holds a pipe)
RenderedCells(line) ==
    LET p == split(line, "|")
    IN  [j \in 1..(Len(p) - 2) |-> SubSeq(p[j + 1], 2, Len(p[j + 1]) - 1)]

\* rendered is value followed by padding spaces only
IsPadded(rendered, value) ==
    /\ Len(value) <= Len(rendered)
    /\ SubSeq(rendered, 1, Len(value)) = value
    /\ \A i \in (Len(value) + 1)..Len(rendered) : rendered[i] = " "

IsBlank(s) == \A i \in 1..Len(s) : s[i] \in WS

Vacuous(d, c) == \A r \in 1..Len(d) : IsBlank(Cell(d[r], c))

RetainedSet(d) ==
    IF Len(d) = 0 THEN {} ELSE {c \in 0..(NumCols(d) - 1) : ~Vacuous(d, c)}

\* the retained columns in increasing order
RetainedCols(d) ==
    LET S == RetainedSet(d)
    IN  [j \in 1..Cardinality(S) |->
            CHOOSE c \in S : Cardinality({x \in S : x < c}) = j - 1]

\* raw width of column c of the grid: its longest cell
RawWidth(d, c) == MaxOf({Len(Cell(d[r], c)) : r \in 1..Len(d)})

RetainedTotal(d) ==
    LET rc == RetainedCols(d)
    IN  SumSeq([j \in 1..Len(rc) |-> RawWidth(d, rc[j])])

\* Every table has one line per row of the grid plus the separator, and
\* Shows(rendered, value) relates each rendered cell to the grid's cell:
\* table g shows at position j the retained column numbered groups[g][j].
TablesShow(Shows(_, _)) ==
    LET tables == OutputTables
        rc == RetainedCols(data)
    IN  /\ Len(tables) = Len(result.groups)
        /\ \A g \in 1..Len(tables) :
            /\ Len(tables[g]) = Len(data) + 1
            /\ \A r \in 1..Len(data) :
                LET cells == RenderedCells(tables[g][IF r = 1 THEN 1 ELSE r + 1])
                IN  /\ Len(cells) = Len(result.groups[g])
                    /\ \A j \in 1..Len(cells) :
                          Shows(cells[j], Cell(data[r], rc[result.groups[g][j] + 1]))

IsPrefixPadded(rendered, value) ==
    \E m \in 0..Len(value) : IsPadded(rendered, SubSeq(value, 1, m))

(***************************************************************************)
(* C1. Every line of the string format returns for a non-empty grid and a  *)
(* maxWidth the HTTP adapter admits (>= 20, default 100) is at most        *)
(* maxWidth characters long, whichever branch returned it.                 *)
(* Fails: the split branch emits a group whose columns do not fit.         *)
(***************************************************************************)
C1_LinesWithinMaxWidth ==
    (pc = "returned" /\ Len(data) > 0 /\ maxWidth >= MIN_HTTP_WIDTH)
        => \A k \in 1..Len(OutputLines) : Len(OutputLines[k]) <= maxWidth

(***************************************************************************)
(* C3. On the split branch column 0 of the filtered grid is the first      *)
(* column of every emitted table when the non-empty trimmed values of      *)
(* column 0 (header included) are pairwise distinct, and of the first      *)
(* table only when some non-empty value repeats.                           *)
(***************************************************************************)
FirstColumnDistinct ==
    LET col == [r \in 1..Len(data) |-> trim(Cell(data[r], RetainedCols(data)[1]))]
    IN  \A r1, r2 \in 1..Len(col) :
            (r1 < r2 /\ col[r1] # <<>>) => col[r1] # col[r2]

C3_KeyColumnRepetition ==
    (pc = "returned" /\ result.path = "split")
        => /\ TablesShow(IsPadded)
           /\ result.groups[1][1] = 0
           /\ \A g \in 2..Len(result.groups) :
                IF FirstColumnDistinct
                THEN result.groups[g][1] = 0
                ELSE \A j \in 1..Len(result.groups[g]) : result.groups[g][j] # 0

C3_Witness ==
    /\ pc = "returned" /\ result.path = "split"
    /\ Len(OutputTables) >= 3
    /\ Len(data) >= 3
    /\ FirstColumnDistinct
    /\ \A g \in 1..Len(OutputTables) :
          IsPadded(RenderedCells(OutputTables[g][3])[1],
                   Cell(data[2], RetainedCols(data)[1]))

(***************************************************************************)
(* C6. As stated: a grid with 11 retained columns is always rendered by    *)
(* the split branch, whatever its widths and maxWidth.  Fails: a grid      *)
(* whose total rendered width fits is rendered as one table.               *)
(***************************************************************************)
C6_ElevenColumnsAlwaysSplit ==
    (pc = "returned" /\ Cardinality(RetainedSet(data)) = MAX_COLUMNS_BEFORE_SPLIT + 1)
        => result.path = "split"

(***************************************************************************)
(* C6, amended. A grid with 11 retained columns whose total rendered width *)
(* exceeds maxWidth is rendered by the split branch: at least two tables,  *)
(* none holding all 11 columns, every cell value shown in full.            *)
(***************************************************************************)
C6_ElevenColumnsTooWideSplit ==
    (/\ pc = "returned"
     /\ Cardinality(RetainedSet(data)) = MAX_COLUMNS_BEFORE_SPLIT + 1
     /\ RetainedTotal(data) + 3 * (MAX_COLUMNS_BEFORE_SPLIT + 1) + 1 > maxWidth)
        => /\ result.path = "split"
           /\ Len(OutputTables) >= 2
           /\ \A g \in 1..Len(OutputTables) :
                Len(RenderedCells(OutputTables[g][1])) < MAX_COLUMNS_BEFORE_SPLIT + 1
           /\ TablesShow(IsPadded)

\* 11 retained columns of mean width >= 6 that a squeeze could hold
C6_Witness ==
    /\ pc = "returned"
    /\ Cardinality(RetainedSet(data)) = MAX_COLUMNS_BEFORE_SPLIT + 1
    /\ RetainedTotal(data) >= 6 * (MAX_COLUMNS_BEFORE_SPLIT + 1)
    /\ RetainedTotal(data) + 3 * (MAX_COLUMNS_BEFORE_SPLIT + 1) + 1 > maxWidth
    /\ maxWidth - (3 * (MAX_COLUMNS_BEFORE_SPLIT + 1) + 1) > 3 * (MAX_COLUMNS_BEFORE_SPLIT + 1)
    /\ result.path = "split"
    /\ Len(OutputTables) >= 2

(***************************************************************************)
(* C7. A grid with n <= 10 retained columns, mean column width >= 6 and    *)
(* total rendered width > maxWidth, where maxWidth - (3n+1) > 3n, comes    *)
(* back as exactly one table (no blank line) with all n retained columns   *)
(* in order and all rows, each output cell a prefix of the grid's cell.    *)
(***************************************************************************)
SqueezeCase ==
    LET n == Cardinality(RetainedSet(data))
    IN  /\ n >= 1 /\ n <= MAX_COLUMNS_BEFORE_SPLIT
        /\ RetainedTotal(data) >= 6 * n
        /\ RetainedTotal(data) + 3 * n + 1 > maxWidth
        /\ maxWidth - (3 * n + 1) > 3 * n

IsSeparatorLine(line) ==
    /\ Len(line) >= 5
    /\ \A i \in 1..Len(line) : line[i] \in {"|", "-"}
    /\ line[1] = "|" /\ line[Len(line)] = "|"

IsRowLine(line) ==
    /\ Len(line) >= 5
    /\ line[1] = "|" /\ line[Len(line)] = "|"
    /\ RenderedCells(line) # <<>>

C9_EmptyIffNothingToShow ==
    /\ pc = "format" =>
        formatLocals(data, maxWidth).path \in {"empty", "single", "squeeze", "split"}
    /\ pc = "returned" =>
        /\ (result.output = <<>>) <=> (Len(data) = 0 \/ RetainedSet(data) = {})
        /\ result.output # <<>> =>
            /\ Len(OutputLines) >= 2
            /\ IsRowLine(OutputLines[1])
            /\ IsSeparatorLine(OutputLines[2])
            /\ Len(OutputLines[2]) = Len(OutputLines[1])

\* a grid of rows whose cells are all blank comes back as the empty string
C9_Witness ==
    /\ pc = "returned"
    /\ Len(data) >= 2 /\ NumCols(data) >= 2
    /\ \E r \in 1..Len(data) : \E c \in 1..Len(data[r]) : data[r][c] # <<>>
    /\ RetainedSet(data) = {}
    /\ result.output = <<>>

(***************************************************************************)
(* C10. The columns format renders are exactly the columns of the          *)
(* normalized grid that hold a non-whitespace value in some row (header    *)
(* included), in their original order: a vacuous column is in no table,    *)
(* and every other column is in a table (in full on the single-table and   *)
(* split branches, cut to a prefix on the squeeze branch).                 *)
(***************************************************************************)
\* the columns of all tables in output order, the repeated column 0 of the
\* tables after the first left out
RECURSIVE ShownOnce(_)
ShownOnce(g) ==
    IF g > Len(result.groups) THEN <<>>
    ELSE (IF g > 1 /\ result.groups[g][1] = 0
          THEN Tail(result.groups[g]) ELSE result.groups[g]) \o ShownOnce(g + 1)

C10_EmptyColumnElision ==
    (pc = "returned" /\ result.output # <<>>)
        => /\ result.nonEmptyColIndices = RetainedCols(data)
           /\ ShownOnce(1) = Range0(Cardinality(RetainedSet(data)))
           /\ IF result.path = "squeeze"
              THEN TablesShow(IsPrefixPadded)
              ELSE TablesShow(IsPadded)

\* a vacuous column between retained ones, on the split branch
C10_Witness ==
    /\ pc = "returned" /\ result.path = "split"
    /\ Len(OutputTables) >= 2
    /\ \E c \in 1..(NumCols(data) - 2) :
          /\ c \notin RetainedSet(data)
          /\ (c - 1) \in RetainedSet(data)
          /\ (c + 1) \in RetainedSet(data)
          /\ \E r \in 1..Len(data) : Cell(data[r], c) # <<>>

(***************************************************************************)
(* C11. Within each table format emits, the header line, the separator     *)
(* line and every data line have the same length, (sum of the table's      *)
(* column widths) + 3 * (number of its columns) + 1, the width of a column *)
(* being the length of the longest cell the table shows in it; the pipes   *)
(* stand at the same positions on every line of the table.                 *)
(***************************************************************************)
\* the value table g shows at row r, position j: the grid's cell, cut to the
\* adjusted width on the squeeze branch
ShownValue(g, r, j) ==
    LET c == result.groups[g][j]
        v == Cell(data[r], RetainedCols(data)[c + 1])
    IN  IF result.path = "squeeze" THEN substring(v, result.adjustedWidths[c + 1]) ELSE v

\* the width of position j of table g: its longest shown value
ShownWidth(g, j) == MaxOf({Len(ShownValue(g, r, j)) : r \in 1..Len(data)})

PipePositions(line) == {i \in 1..Len(line) : line[i] = "|"}

C11_LinesAligned ==
    (pc = "returned" /\ result.output # <<>>)
        => LET tables == OutputTables
           IN  /\ Len(tables) = Len(result.groups)
               /\ \A g \in 1..Len(tables) :
                    LET n == Len(result.groups[g])
                        w == [j \in 1..n |-> ShownWidth(g, j)]
                        edge == [j \in 0..n |-> 1 + SumSeq(SubSeq(w, 1, j)) + (3 * j)]
                    IN  /\ Len(tables[g]) = Len(data) + 1
                        /\ \A k \in 1..Len(tables[g]) :
                            /\ Len(tables[g][k]) = SumSeq(w) + (3 * n) + 1
                            /\ PipePositions(tables[g][k]) = {edge[j] : j \in 0..n}

\* tables of different lengths, and a column whose cells differ in length
C11_Witness ==
    /\ pc = "returned" /\ result.path = "split"
    /\ Len(data) >= 3
    /\ Len(OutputTables) >= 2
    /\ Len(OutputTables[1][1]) # Len(OutputTables[2][1])
    /\ \E j \in 1..Len(result.groups[1]) :
          Len(ShownValue(1, 2, j)) < ShownWidth(1, j)

(***************************************************************************)
(* C12. As stated: on the squeeze branch every column i of the one table   *)
(* is rendered with content width exactly adjustedWidths[i], columns of    *)
(* raw width below MIN_COLUMN_WIDTH included.  Fails: the table's widths   *)
(* are computed again from the truncated values, so a column whose raw     *)
(* width is below its adjusted width keeps its raw width.                  *)
(***************************************************************************)
\* content width of position j of a rendered line
RenderedWidth(line, j) == Len(RenderedCells(line)[j])

C12_RenderedAtAdjustedWidths ==
    (pc = "returned" /\ result.path = "squeeze")
        => LET header == OutputLines[1]
           IN  /\ Len(RenderedCells(header)) = Len(result.adjustedWidths)
               /\ \A j \in 1..Len(result.adjustedWidths) :
                     RenderedWidth(header, j) = result.adjustedWidths[j]

(***************************************************************************)
(* C12, amended. On the squeeze branch every column i of the one table is  *)
(* rendered with content width min(raw width of i, adjustedWidths[i]):     *)
(* exactly adjustedWidths[i] when the column's raw width is at least that, *)
(* and its raw width when that is smaller (raw width below                 *)
(* MIN_COLUMN_WIDTH).                                                      *)
(***************************************************************************)
C12_RenderedAtMinOfRawAndAdjusted ==
    (pc = "returned" /\ result.path = "squeeze")
        => LET lines == OutputLines
               rc == RetainedCols(data)
           IN  /\ Len(rc) = Len(result.adjustedWidths)
               /\ \A k \in 1..Len(lines) :
                    /\ Len(RenderedCells(lines[k])) = Len(rc)
                    /\ \A j \in 1..Len(rc) :
                          RenderedWidth(lines[k], j) =
                              MinOf({RawWidth(data, rc[j]), result.adjustedWidths[j]})

\* one column cut to its adjusted width next to one narrower than
\* MIN_COLUMN_WIDTH
C12_Witness ==
    /\ pc = "returned" /\ result.path = "squeeze"
    /\ \E j \in 1..Len(result.adjustedWidths) :
          /\ RawWidth(data, RetainedCols(data)[j]) > result.adjustedWidths[j]
          /\ RenderedWidth(OutputLines[1], j) = result.adjustedWidths[j]
    /\ \E j \in 1..Len(result.adjustedWidths) :
          /\ RawWidth(data, RetainedCols(data)[j]) < MIN_COLUMN_WIDTH
          /\ RenderedWidth(OutputLines[1], j) = RawWidth(data, RetainedCols(data)[j])

(***************************************************************************)
(* SpecKey: one call hasUniqueFirstColumn(data); one action per return.    *)
(***************************************************************************)
MaxKeyRows == 3
KeyCells == {<<>>, <<" ">>, <<"a">>, <<" ", "a">>, <<"a", " ">>, <<"b">>}
\* a row with no cell, with the cell of column 0, or with one more cell
KeyRows == {<<>>} \cup {<<v>> : v \in KeyCells} \cup {<<v, <<"z">>>> : v \in KeyCells}
KeyGrids == UNION {[1..m -> KeyRows] : m \in 0..MaxKeyRows}

InitKey ==
    /\ pc = "key"
    /\ data \in KeyGrids
    /\ maxWidth = 0
    /\ result = NoLocals
    /\ text = Idle
    /\ parsed = Idle
    /\ loop = Idle

\* line 80: no rows
KeyNoRows ==
    /\ pc = "key"
    /\ Len(data) = 0
    /\ result' = [result EXCEPT !.hasKeyColumn = hasUniqueFirstColumn(data)]
    /\ pc' = "returned"
    /\ UNCHANGED <<data, maxWidth, text, parsed, loop>>

\* lines 92-94: a non-empty value was seen before
KeyRepeated ==
    /\ pc = "key"
    /\ Len(data) > 0
    /\ ~UniqueScan(data, 1, {})
    /\ result' = [result EXCEPT !.hasKeyColumn = hasUniqueFirstColumn(data)]
    /\ pc' = "returned"
    /\ UNCHANGED <<data, maxWidth, text, parsed, loop>>

\* line 98: the scan completed
KeyScanCompleted ==
    /\ pc = "key"
    /\ Len(data) > 0
    /\ UniqueScan(data, 1, {})
    /\ result' = [result EXCEPT !.hasKeyColumn = hasUniqueFirstColumn(data)]
    /\ pc' = "returned"
    /\ UNCHANGED <<data, maxWidth, text, parsed, loop>>

NextKey == KeyNoRows \/ KeyRepeated \/ KeyScanCompleted

SpecKey == InitKey /\ [][NextKey]_vars

\* the trimmed values of column 0, a missing cell reading as empty
KeyValues == [r \in 1..Len(data) |-> trim(Cell(data[r], 0))]

\* no non-empty trimmed value of column 0 occurs twice
NoValueTwice ==
    \A r1, r2 \in 1..Len(data) :
        (r1 # r2 /\ KeyValues[r1] # <<>>) => KeyValues[r1] # KeyValues[r2]

(***************************************************************************)
(* C13. As stated: hasUniqueFirstColumn reports a key column exactly when  *)
(* no non-empty trimmed value of column 0 occurs twice, so also when all   *)
(* values of column 0 are empty and when the grid has zero rows.           *)
(* Fails: for a grid of zero rows it reports no key column.                *)
(***************************************************************************)
C13_KeyIffNoValueTwice ==
    pc = "returned" => (result.hasKeyColumn <=> NoValueTwice)

(***************************************************************************)
(* C13, amended. hasUniqueFirstColumn reports a key column exactly when    *)
(* the grid has at least one row and no non-empty trimmed value of column  *)
(* 0 occurs twice, empty and whitespace values being ignored: it reports   *)
(* one when all values of column 0 are empty, and none for zero rows.      *)
(***************************************************************************)
C13_KeyIffRowsAndNoValueTwice ==
    pc = "returned" =>
        /\ result.hasKeyColumn <=> (Len(data) > 0 /\ NoValueTwice)
        /\ (Len(data) > 0 /\ \A r \in 1..Len(data) : KeyValues[r] = <<>>)
              => result.hasKeyColumn
        /\ Len(data) = 0 => ~result.hasKeyColumn

\* all values of column 0 empty after trimming (a missing cell, an empty
\* one and a blank one), reported as a key column
C13_Witness ==
    /\ pc = "returned"
    /\ Len(data) = MaxKeyRows
    /\ \A r \in 1..Len(data) : KeyValues[r] = <<>>
    /\ \E r \in 1..Len(data) : Len(data[r]) = 0
    /\ \E r \in 1..Len(data) : Cell(data[r], 0) = <<" ">>
    /\ result.hasKeyColumn

(***************************************************************************)
(* SpecSqueeze: the scaling and the trim of format's squeeze branch, for   *)
(* the column widths and maxWidth with which format enters it: the table   *)
(* does not fit, shouldSplit is false and availableWidth exceeds           *)
(* MIN_COLUMN_WIDTH per column.  loop holds colWidths, availableWidth, the *)
(* scaled widths and the adjusted widths.                                  *)
(***************************************************************************)
MaxSqueezeCols == 4
SqueezeWidths == {1, 2, 5, 6, 9, 13, 20}
SqueezeMaxWidths == {MIN_HTTP_WIDTH, 28, 45}

SqueezeVectors == UNION {[1..n -> SqueezeWidths] : n \in 1..MaxSqueezeCols}

AvailableWidth(colWidths, mw) == mw - ((Len(colWidths) * 3) + 1)

InitSqueeze ==
    /\ pc = "squeeze"
    /\ \E colWidths \in SqueezeVectors : \E mw \in SqueezeMaxWidths :
          /\ calculateTableWidth(colWidths) > mw
          /\ ~shouldSplit(colWidths)
          /\ AvailableWidth(colWidths, mw) > Len(colWidths) * MIN_COLUMN_WIDTH
          /\ loop = [colWidths |-> colWidths,
                     availableWidth |-> AvailableWidth(colWidths, mw),
                     scaled |-> <<>>, adjusted |-> <<>>]
    /\ data = Idle
    /\ maxWidth = 0
    /\ result = NoLocals
    /\ text = Idle
    /\ parsed = Idle

\* lines 268-278: the scaled widths are within availableWidth, no trim
SqueezeScaledFits ==
    /\ pc = "squeeze"
    /\ SumSeq(ScaledWidths(loop.colWidths, loop.availableWidth)) <= loop.availableWidth
    /\ loop' = [loop EXCEPT
                   !.scaled = ScaledWidths(loop.colWidths, loop.availableWidth),
                   !.adjusted = adjustedWidths(loop.colWidths, loop.availableWidth)]
    /\ pc' = "returned"
    /\ UNCHANGED <<data, maxWidth, result, text, parsed>>

\* lines 268-291: the scaled widths are over availableWidth and are trimmed
SqueezeTrimmed ==
    /\ pc = "squeeze"
    /\ SumSeq(ScaledWidths(loop.colWidths, loop.availableWidth)) > loop.availableWidth
    /\ loop' = [loop EXCEPT
                   !.scaled = ScaledWidths(loop.colWidths, loop.availableWidth),
                   !.adjusted = adjustedWidths(loop.colWidths, loop.availableWidth)]
    /\ pc' = "returned"
    /\ UNCHANGED <<data, maxWidth, result, text, parsed>>

NextSqueeze == SqueezeScaledFits \/ SqueezeTrimmed

SpecSqueeze == InitSqueeze /\ [][NextSqueeze]_vars

(***************************************************************************)
(* C14. Whenever the squeeze branch is entered (availableWidth =           *)
(* maxWidth - (3n+1) > 3n), after the proportional scaling and the         *)
(* largest-first trim every adjusted width is >= MIN_COLUMN_WIDTH, no      *)
(* width is above its scaled value (the trim increases none), and the      *)
(* adjusted widths sum to at most availableWidth: the trim drives the      *)
(* excess to zero before it runs out of columns.                           *)
(***************************************************************************)
C14_SqueezePostcondition ==
    pc = "returned" =>
        /\ Len(loop.adjusted) = Len(loop.colWidths)
        /\ \A i \in 1..Len(loop.adjusted) :
              /\ loop.adjusted[i] >= MIN_COLUMN_WIDTH
              /\ loop.adjusted[i] <= loop.scaled[i]
        /\ SumSeq(loop.adjusted) <= loop.availableWidth

\* the trim took from two columns, the first of them down to the minimum
C14_Witness ==
    /\ pc = "returned"
    /\ SumSeq(loop.scaled) > loop.availableWidth
    /\ Cardinality({i \in 1..Len(loop.adjusted) : loop.adjusted[i] < loop.scaled[i]}) >= 2
    /\ \E i \in 1..Len(loop.adjusted) :
          loop.adjusted[i] = MIN_COLUMN_WIDTH /\ loop.scaled[i] > MIN_COLUMN_WIDTH
    /\ SumSeq(loop.adjusted) = loop.availableWidth

(***************************************************************************)
(* SpecSplit: one call splitColumnsIntoGroups(colWidths, maxWidth,         *)
(* repeatFirstCol), one action per branch of its loop body and one for     *)
(* its return.  loop.st holds the loop variables i, groups, currentGroup.  *)
(***************************************************************************)
MaxSplitCols == 4
SplitWidths == {1, 5, 12}
SplitMaxWidths == {10, MIN_HTTP_WIDTH}

WidthVectors == UNION {[1..n -> SplitWidths] : n \in 0..MaxSplitCols}

InitSplit ==
    /\ pc = "split"
    /\ loop \in [colWidths : WidthVectors, maxWidth : SplitMaxWidths,
                 repeatFirstCol : BOOLEAN, st : {SplitStart}, returned : {<<>>}]
    /\ data = Idle
    /\ maxWidth = 0
    /\ result = NoLocals
    /\ text = Idle
    /\ parsed = Idle

Iterate ==
    loop' = [loop EXCEPT !.st = SplitStep(loop.st, loop.colWidths, loop.maxWidth,
                                          loop.repeatFirstCol)]

Fits ==
    GroupWidth(loop.colWidths,
               TestGroup(loop.st.currentGroup, loop.st.i, loop.repeatFirstCol))
        <= loop.maxWidth

\* lines 173-176: the first column starts the first group
SplitFirstColumn ==
    /\ pc = "split"
    /\ loop.st.i < Len(loop.colWidths)
    /\ loop.st.i = 0
    /\ Iterate
    /\ UNCHANGED <<pc, data, maxWidth, result, text, parsed>>

\* lines 186-188: the column fits in the current group
SplitColumnFits ==
    /\ pc = "split"
    /\ loop.st.i < Len(loop.colWidths)
    /\ loop.st.i > 0
    /\ Fits
    /\ Iterate
    /\ UNCHANGED <<pc, data, maxWidth, result, text, parsed>>

\* lines 189-197: the column starts a new group
SplitNewGroup ==
    /\ pc = "split"
    /\ loop.st.i < Len(loop.colWidths)
    /\ loop.st.i > 0
    /\ ~Fits
    /\ Iterate
    /\ UNCHANGED <<pc, data, maxWidth, result, text, parsed>>

\* lines 200-205: add the last group and return
SplitReturn ==
    /\ pc = "split"
    /\ loop.st.i >= Len(loop.colWidths)
    /\ loop' = [loop EXCEPT !.returned = SplitFinish(loop.st)]
    /\ pc' = "returned"
    /\ UNCHANGED <<data, maxWidth, result, text, parsed>>

NextSplit == SplitFirstColumn \/ SplitColumnFits \/ SplitNewGroup \/ SplitReturn

SpecSplit == InitSplit /\ [][NextSplit]_vars

(***************************************************************************)
(* C2. The groups splitColumnsIntoGroups returns: column 0 is in the first *)
(* group; every column i >= 1 is in exactly one group; the indices of a    *)
(* group are strictly increasing and the groups are in increasing column   *)
(* order; only index 0 may be in more than one group, and only when        *)
(* repeatFirstCol is true.                                                 *)
(***************************************************************************)
\* the places (group, position) where column i stands in groups
Places(groups, i) ==
    {<<g, j>> \in (1..Len(groups)) \X (0..MaxOf({0} \cup {Len(groups[g]) : g \in 1..Len(groups)})) :
        j >= 1 /\ j <= Len(groups[g]) /\ groups[g][j] = i}

C2_GroupsPartitionColumns ==
    pc = "returned" =>
        LET groups == loop.returned
            n == Len(loop.colWidths)
        IN  /\ n = 0 => groups = <<>>
            /\ n > 0 => (Len(groups) >= 1 /\ <<1, 1>> \in Places(groups, 0))
            /\ \A g \in 1..Len(groups) : \A j \in 1..Len(groups[g]) :
                    groups[g][j] \in 0..(n - 1)
            /\ \A i \in 1..(n - 1) : Cardinality(Places(groups, i)) = 1
            /\ \A g \in 1..Len(groups) : \A j \in 1..(Len(groups[g]) - 1) :
                    groups[g][j] < groups[g][j + 1]
            /\ \A g, h \in 1..Len(groups) :
                    g < h => \A j \in 1..Len(groups[g]) : \A k \in 1..Len(groups[h]) :
                                (groups[h][k] # 0) => groups[g][j] < groups[h][k]
            /\ ~loop.repeatFirstCol => Cardinality(Places(groups, 0)) <= 1

\* a key column repeated over three groups or more
C2_Witness ==
    /\ pc = "returned"
    /\ loop.repeatFirstCol
    /\ Len(loop.colWidths) = MaxSplitCols
    /\ Len(loop.returned) >= 3
    /\ Cardinality(Places(loop.returned, 0)) >= 3
    /\ \E g \in 1..Len(loop.returned) : Len(loop.returned[g]) >= 3

(***************************************************************************)
(* C15. When splitColumnsIntoGroups is called with repeatFirstCol true and *)
(* at least two columns, every returned group holds a column other than    *)
(* the key column 0; and every returned group that holds more columns than *)
(* its seed (more than [0, i] with a key column, more than [i] without)    *)
(* has rendered width <= maxWidth.                                         *)
(* Fails: when columns 0 and 1 do not fit together, the first group is     *)
(* closed holding column 0 alone.                                          *)
(***************************************************************************)
HoldsOtherColumn(group) == \E j \in 1..Len(group) : group[j] # 0

SeedLen == IF loop.repeatFirstCol THEN 2 ELSE 1

C15_GroupsUseful ==
    pc = "returned" =>
        /\ (loop.repeatFirstCol /\ Len(loop.colWidths) >= 2)
              => \A g \in 1..Len(loop.returned) : HoldsOtherColumn(loop.returned[g])
        /\ \A g \in 1..Len(loop.returned) :
              Len(loop.returned[g]) > SeedLen
                  => GroupWidth(loop.colWidths, loop.returned[g]) <= loop.maxWidth

(***************************************************************************)
(* The parsers.                                                            *)
(***************************************************************************)
\* text.trim().split('\n').filter(line => line.trim())
NonBlankLines(t) == SelectSeq(split(trim(t), NL), LAMBDA line : trim(line) # <<>>)

\* /^\s*\|.*\|\s*$/
markdownPattern(line) ==
    LET t == trim(line) IN Len(t) >= 2 /\ startsWith(t, "|") /\ endsWith(t, "|")

\* /^\+[-+]+\+$/
sqlBorderPattern(line) ==
    /\ Len(line) >= 3
    /\ startsWith(line, "+") /\ endsWith(line, "+")
    /\ \A i \in 2..(Len(line) - 1) : line[i] \in {"-", "+"}

\* /^\|.*\|$/
sqlDataPattern(line) ==
    Len(line) >= 2 /\ startsWith(line, "|") /\ endsWith(line, "|")

\* Mutant: half of the lines being pipe-delimited is enough for markdown.
detectFormat_HalfIsMarkdown(t) ==
    LET lines == NonBlankLines(t)
    IN  IF Len(lines) = 0 THEN "unknown"
        ELSE IF 2 * Len(SelectSeq(lines, markdownPattern)) >= Len(lines) THEN "markdown"
        ELSE IF \/ \E k \in 1..Len(lines) : sqlBorderPattern(lines[k])
                \/ (/\ \E k \in 1..Len(lines) : sqlDataPattern(lines[k])
                    /\ includes(t, "|"))
             THEN "sql"
        ELSE IF 10 * Len(SelectSeq(lines, LAMBDA line : includes(line, TAB))) > 7 * Len(lines)
             THEN "tsv"
        ELSE "csv"

detectFormat(t) ==
    LET lines == NonBlankLines(t)
    IN  IF Len(lines) = 0 THEN "unknown"
        ELSE IF 2 * Len(SelectSeq(lines, markdownPattern)) > Len(lines) THEN "markdown"
        ELSE IF \/ \E k \in 1..Len(lines) : sqlBorderPattern(lines[k])
                \/ (/\ \E k \in 1..Len(lines) : sqlDataPattern(lines[k])
                    /\ includes(t, "|"))
             THEN "sql"
        ELSE IF 10 * Len(SelectSeq(lines, LAMBDA line : includes(line, TAB))) > 7 * Len(lines)
             THEN "tsv"
        ELSE "csv"

\* line.split(sep).map(cell => cell.trim())
TrimmedCells(line, sep) ==
    LET p == split(line, sep) IN [j \in 1..Len(p) |-> trim(p[j])]

\* line.split('|').slice(1, -1).map(cell => cell.trim())
PipeCells(line) ==
    LET p == split(line, "|") IN [j \in 1..(Len(p) - 2) |-> trim(p[j + 1])]

\* /^\|[\s-|]+\|$/.test(line) && line.includes('-')
IsSeparatorRow(line) ==
    /\ Len(line) >= 3
    /\ startsWith(line, "|") /\ endsWith(line, "|")
    /\ \A i \in 2..(Len(line) - 1) : line[i] \in WS \cup {"-", "|"}
    /\ includes(line, "-")

\* the rows of the lines that are kept, rows of no cell dropped
RECURSIVE PipeRows(_)
PipeRows(lines) ==
    IF Len(lines) = 0 THEN <<>>
    ELSE (IF Len(PipeCells(Head(lines))) > 0 THEN <<PipeCells(Head(lines))>> ELSE <<>>)
         \o PipeRows(Tail(lines))

parseMarkdown(t) ==
    LET trimmed == [k \in 1..Len(split(trim(t), NL)) |-> trim(split(trim(t), NL)[k])]
        lines == SelectSeq(trimmed, LAMBDA line : startsWith(line, "|") /\ endsWith(line, "|"))
    IN  PipeRows(SelectSeq(lines, LAMBDA line : ~IsSeparatorRow(line)))

QUOTES == {"\"", "'"}

\* cell.replace(/^["']|["']$/g, '')
StripQuotes(cell) ==
    LET a == IF Len(cell) > 0 /\ cell[1] \in QUOTES THEN Tail(cell) ELSE cell
    IN  IF Len(a) > 0 /\ a[Len(a)] \in QUOTES THEN SubSeq(a, 1, Len(a) - 1) ELSE a

parseCSV(t) ==
    LET lines == NonBlankLines(t)
    IN  [k \in 1..Len(lines) |->
            LET cells == TrimmedCells(lines[k], ",")
            IN  [j \in 1..Len(cells) |-> StripQuotes(cells[j])]]

parseTSV(t) ==
    LET lines == NonBlankLines(t)
    IN  [k \in 1..Len(lines) |-> TrimmedCells(lines[k], TAB)]

parseSQL(t) ==
    LET trimmed == [k \in 1..Len(split(trim(t), NL)) |-> trim(split(trim(t), NL)[k])]
        lines == SelectSeq(trimmed, LAMBDA line :
                          /\ ~sqlBorderPattern(line)
                          /\ startsWith(line, "|") /\ endsWith(line, "|"))
    IN  PipeRows(lines)

parse(t) ==
    IF trim(t) = <<>> THEN <<>>
    ELSE CASE detectFormat(t) = "markdown" -> parseMarkdown(t)
           [] detectFormat(t) = "csv" -> parseCSV(t)
           [] detectFormat(t) = "tsv" -> parseTSV(t)
           [] detectFormat(t) = "sql" -> parseSQL(t)
           [] OTHER -> parseCSV(t)

(***************************************************************************)
(* SpecParse: one call parse(text): the blank-text return, or one of       *)
(* detectFormat's returns followed by the parser the switch selects.       *)
(***************************************************************************)
MaxLines == 3

LineKinds ==
    { <<"+", "-", "+">>,
      <<"|", "a", "|", "b", "|">>,
      <<" ", "|", "a", "|", " ">>,
      <<"|", "-", "|", "-", "|">>,
      <<"a", ",", "b">>,
      <<"a", TAB, "b">>,
      <<" ">>,
      <<"\"", "a", "\"", ",", "'", "b", ",", "c", "\"", ",", "i", "t", "'", "s">> }

Texts == {<<>>} \cup UNION {{join(ls, <<NL>>) : ls \in [1..n -> LineKinds]} : n \in 1..MaxLines}

NoParse == [tag |-> "none", grid |-> <<>>]

InitParse ==
    /\ pc = "parse"
    /\ text \in Texts
    /\ parsed = NoParse
    /\ data = Idle
    /\ maxWidth = 0
    /\ result = NoLocals
    /\ loop = Idle

\* lines 153-155: return []
ParseBlank ==
    /\ pc = "parse"
    /\ trim(text) = <<>>
    /\ parsed' = [parsed EXCEPT !.grid = <<>>]
    /\ pc' = "parsed"
    /\ UNCHANGED <<data, maxWidth, result, text, loop>>

\* detectFormat has returned tag
Detected(tag) ==
    /\ pc = "parse"
    /\ trim(text) # <<>>
    /\ parsed' = [parsed EXCEPT !.tag = tag]
    /\ pc' = "dispatch"
    /\ UNCHANGED <<data, maxWidth, result, text, loop>>

\* the selected parser has returned grid
Dispatched(grid) ==
    /\ pc = "dispatch"
    /\ parsed' = [parsed EXCEPT !.grid = grid]
    /\ pc' = "parsed"
    /\ UNCHANGED <<data, maxWidth, result, text, loop>>

DetectMarkdown == detectFormat(text) = "markdown" /\ Detected("markdown")
DetectSql == detectFormat(text) = "sql" /\ Detected("sql")
DetectTsv == detectFormat(text) = "tsv" /\ Detected("tsv")
DetectCsv == detectFormat(text) = "csv" /\ Detected("csv")

ParseMarkdown == parsed.tag = "markdown" /\ Dispatched(parseMarkdown(text))
ParseSql == parsed.tag = "sql" /\ Dispatched(parseSQL(text))
ParseTsv == parsed.tag = "tsv" /\ Dispatched(parseTSV(text))
ParseCsv == parsed.tag = "csv" /\ Dispatched(parseCSV(text))

NextParse ==
    \/ ParseBlank
    \/ DetectMarkdown \/ DetectSql \/ DetectTsv \/ DetectCsv
    \/ ParseMarkdown \/ ParseSql \/ ParseTsv \/ ParseCsv

SpecParse == InitParse /\ [][NextParse]_vars

(***************************************************************************)
(* What the text handed to the parser says, stated without the code's      *)
(* helpers.                                                                *)
(***************************************************************************)
TextLines == split(text, NL)

\* a line made of + and - only, three characters or more, + at both ends
IsBorderLine(line) ==
    /\ Len(line) >= 3
    /\ line[1] = "+" /\ line[Len(line)] = "+"
    /\ \A i \in 1..Len(line) : line[i] \in {"+", "-"}

HasBorderLine == \E k \in 1..Len(TextLines) : IsBorderLine(TextLines[k])

\* a line that, surrounding whitespace ignored, starts and ends with a pipe
IsPipeDelimited(line) ==
    \E i, j \in 1..Len(line) :
        /\ i < j
        /\ line[i] = "|" /\ line[j] = "|"
        /\ \A k \in 1..Len(line) : (k < i \/ k > j) => line[k] \in WS

PipeDelimitedCount == Cardinality({k \in 1..Len(TextLines) : IsPipeDelimited(TextLines[k])})

NonBlankCount == Cardinality({k \in 1..Len(TextLines) : ~IsBlank(TextLines[k])})

(***************************************************************************)
(* C5. As stated: detectFormat classifies every text that holds an ASCII   *)
(* border line as sql, whatever its other lines are.  Fails: the markdown  *)
(* test comes first.                                                       *)
(***************************************************************************)
C5_BorderLineMeansSql ==
    (pc \in {"dispatch", "parsed"} /\ HasBorderLine) => parsed.tag = "sql"

(***************************************************************************)
(* C5, amended. detectFormat classifies a text that holds an ASCII border  *)
(* line as sql unless more than half of its non-blank lines are            *)
(* pipe-delimited, and then as markdown.                                   *)
(***************************************************************************)
C5_BorderLineSqlUnlessMostlyPipes ==
    (pc \in {"dispatch", "parsed"} /\ HasBorderLine)
        => parsed.tag = (IF 2 * PipeDelimitedCount > NonBlankCount
                         THEN "markdown" ELSE "sql")

\* a border line, a pipe-delimited line and a line of neither kind: sql
C5_Witness ==
    /\ pc = "parsed"
    /\ HasBorderLine
    /\ PipeDelimitedCount = 1
    /\ NonBlankCount = 3
    /\ parsed.tag = "sql"
    /\ Len(parsed.grid) = 1

(***************************************************************************)
(* C8. parseCSV removes quote characters from a trimmed cell only when the *)
(* cell has a quote character (" or ') at both ends, and then exactly      *)
(* those two; a cell with a quote at one end only, or with inner quotes    *)
(* only, is returned unchanged apart from trimming.                        *)
(* Fails: a quote at one end only is removed.                              *)
(***************************************************************************)
\* the cell of the text that parseCSV read as cell j of row k
CsvRawCell(k, j) ==
    LET nonBlank == SelectSeq(TextLines, LAMBDA line : ~IsBlank(line))
    IN  trim(split(nonBlank[k], ",")[j])

QuotedBothEnds(cell) ==
    Len(cell) >= 2 /\ cell[1] \in QUOTES /\ cell[Len(cell)] \in QUOTES

C8_QuotesStrippedOnlyInPairs ==
    (pc = "parsed" /\ parsed.tag = "csv")
        => \A k \in 1..Len(parsed.grid) : \A j \in 1..Len(parsed.grid[k]) :
              LET raw == CsvRawCell(k, j)
              IN  parsed.grid[k][j] = (IF QuotedBothEnds(raw)
                                       THEN SubSeq(raw, 2, Len(raw) - 1)
                                       ELSE raw)

(***************************************************************************)
(* SpecRoundTrip: format(data, maxWidth), parse of the returned string,    *)
(* and format of the parsed grid, for rectangular grids with no vacuous    *)
(* column whose total rendered width is at most maxWidth.                  *)
(***************************************************************************)
MaxRoundTripRows == 2
MaxRoundTripCols == 2

RoundTripCells == {<<>>, <<"a", "b">>, <<"-">>, <<"|">>}

RoundTripGrids ==
    UNION {[1..m -> [1..n -> RoundTripCells]] :
              m \in 1..MaxRoundTripRows, n \in 1..MaxRoundTripCols}

InitRoundTrip ==
    /\ pc = "format"
    /\ data \in RoundTripGrids
    /\ maxWidth \in {MIN_HTTP_WIDTH, MAX_TABLE_WIDTH}
    /\ \A c \in 0..(NumCols(data) - 1) : ~Vacuous(data, c)
    /\ calculateTableWidth(calculateColumnWidths(data)) <= maxWidth
    /\ result = NoLocals
    /\ text = Idle
    /\ parsed = NoParse
    /\ loop = Idle

\* output = format(data, maxWidth), handed to parse
RoundTripFormat ==
    /\ pc = "format"
    /\ result' = format(data, maxWidth)
    /\ text' = result'.output
    /\ pc' = "parse"
    /\ UNCHANGED <<data, maxWidth, parsed, loop>>

\* format(parse(output), maxWidth)
RoundTripReformat ==
    /\ pc = "parsed"
    /\ result' = format(parsed.grid, maxWidth)
    /\ pc' = "reformatted"
    /\ UNCHANGED <<data, maxWidth, text, parsed, loop>>

NextRoundTrip ==
    RoundTripFormat \/ DetectMarkdown \/ ParseMarkdown \/ RoundTripReformat

SpecRoundTrip == InitRoundTrip /\ [][NextRoundTrip]_vars

(***************************************************************************)
(* C4. Round trip: for a rectangular grid with no vacuous column whose     *)
(* total rendered width is <= maxWidth, parse(format(grid, maxWidth)) has  *)
(* the rows and the cell values of the grid (padding whitespace ignored),  *)
(* so format(parse(format(grid))) = format(grid).                          *)
(* Fails: a row whose cells are hyphens is read as a separator row and     *)
(* dropped, and a pipe inside a cell splits the cell.                      *)
(***************************************************************************)
C4_RoundTrip ==
    /\ pc \in {"dispatch", "parsed", "reformatted"} => parsed.tag = "markdown"
    /\ pc \in {"parsed", "reformatted"} =>
          parsed.grid = [r \in 1..Len(data) |-> [c \in 1..Len(data[r]) |-> trim(data[r][c])]]
    /\ pc = "reformatted" => result.output = text

====
